---- MODULE Spec2Model ----
(***************************************************************************)
(* Annotation review workflow of labeloo/backend: completeAnnotation,      *)
(* the POST/PATCH review routes with createReview/updateReview, the        *)
(* workflow resolver and the task endpoints, over the                      *)
(* tasks, annotations and reviews tables.                                  *)
(*                                                                         *)
(* Two specifications share the step operators below:                      *)
(*   Spec        every storage round trip of a handler is one step and two *)
(*               requests interleave at these steps;                       *)
(*   SpecSerial  every request runs from its first step to its response    *)
(*               before the next one starts.                               *)
(* A third one, SpecAllocator, applies the reviewer allocator's functions  *)
(* to project_relations and reviews rows of several projects.              *)
(***************************************************************************)
EXTENDS Integers, Sequences, FiniteSets, TLC

VARIABLES tasks, annotations, reviews, settings, members, cap, calls, started,
          last, prev, query, answer

vars == <<tasks, annotations, reviews, settings, members, cap, calls, started,
          last, prev, query, answer>>

\* what no request writes
config == <<settings, members, cap, query, answer>>

\* Bounds on the number of rows of the reviews table: one request at a time,
\* and interleaved requests.
MaxReviews == 3
MaxRaceReviews == 2

\* Bound on the number of requests of a behaviour of interleaved requests.
MaxRequests == 3

\* Bounds on the rows of the tables the allocator's functions are applied to.
MaxRelations == 2
MaxReviewRows == 2
MaxCandidates == 3
MaxPendingCount == 2
MaxSharedReviews == 2
MaxFairReviews == 2

Null == "null"

Users == {"A", "B", "C"}
TaskIds == {1}
Slots == {"s1", "s2"}

taskStatusEnum == {"unassigned", "annotating", "completed", "in_review", "changes_needed"}
annotationReviewStatusEnum == {"pending", "approved", "rejected"}
reviewStatusEnum == {"pending", "approved", "rejected", "changes_requested"}
reviewActionValues == {"approved", "rejected", "changes_requested"}
reviewModeValues == {"auto", "always-required", "always-skip"}

\* Request bodies: a message is absent, blank or a text.
Messages == {Null, " ", "fix"}

\* annotations.task_id and annotations.user_id never change after the insert.
AnnTask(a) == CHOOSE t \in TaskIds : TRUE
AnnUser(a) == IF a = 1 THEN "A" ELSE "B"

DB == [tasks |-> tasks, annotations |-> annotations, reviews |-> reviews]

----------------------------------------------------------------------------
(* Pure helpers *)

getTaskStatusFromReviewStatus(reviewStatus) ==
    IF reviewStatus = "approved" THEN "completed" ELSE "changes_needed"

getAnnotationReviewStatusBad(reviewStatus) ==
    IF reviewStatus = "approved" THEN "approved" ELSE "rejected"

getAnnotationReviewStatus(reviewStatus) ==
    IF reviewStatus = "approved" THEN "approved"
    ELSE IF reviewStatus = "rejected" THEN "rejected"
    ELSE "pending"

MsgLen(m) == IF m = "" THEN 0 ELSE IF m = " " THEN 1 ELSE 3
Trim(m) == IF m = " " THEN "" ELSE m

\* z.object({status: enum, message: string.min(1).optional()}).refine(...)
createReviewSchema(status, message) ==
    /\ status \in reviewActionValues
    /\ message # Null => MsgLen(message) >= 1
    /\ status \in {"rejected", "changes_requested"} =>
          message # Null /\ MsgLen(Trim(message)) > 0

\* status is optional here
updateReviewSchema(status, message) ==
    /\ status # Null => status \in reviewActionValues
    /\ message # Null => MsgLen(message) >= 1
    /\ ~ ( status \in {"rejected", "changes_requested"}
           /\ (message = Null \/ MsgLen(Trim(message)) = 0) )

ReviewsOf(db, a) == {i \in DOMAIN db.reviews : db.reviews[i].annotationId = a}

\* select max(review_round) ... ?? 0
MaxRound(db, a) ==
    IF ReviewsOf(db, a) = {} THEN 0
    ELSE LET i == CHOOSE i \in ReviewsOf(db, a) :
                    \A j \in ReviewsOf(db, a) :
                        db.reviews[j].reviewRound <= db.reviews[i].reviewRound
         IN db.reviews[i].reviewRound

\* order by review_round desc limit 1: any row of the highest round
LatestReviews(db, a) ==
    {i \in ReviewsOf(db, a) : db.reviews[i].reviewRound = MaxRound(db, a)}

\* idx_reviews_annotation_pending: unique on annotation_id where status = 'pending'
PendingIndexOff(db, row) == FALSE

PendingIndexViolated(db, row) ==
    /\ row.status = "pending"
    /\ \E i \in ReviewsOf(db, row.annotationId) : db.reviews[i].status = "pending"

NewReview(a, reviewer, status, message, auto, round) ==
    [annotationId |-> a, taskId |-> AnnTask(a), reviewerId |-> reviewer,
     status |-> status, message |-> message, isAutoApproved |-> auto,
     reviewRound |-> round]

----------------------------------------------------------------------------
(* Workflow resolver *)

PendingCount(db, u) ==
    Cardinality({i \in DOMAIN db.reviews :
                    db.reviews[i].reviewerId = u /\ db.reviews[i].status = "pending"})

Projects == {"p1", "p2"}
ThisProject == "p1"

\* the project_relations rows joined with their role's permission_flags, and
\* the reviews rows, as the requests of the one project of Spec and
\* SpecSerial see them
ProjectRelations ==
    [i \in 1..Len(members) |->
        [userId |-> members[i], projectId |-> ThisProject,
         permissionFlags |-> {"reviewAnnotations"}]]
ReviewRows(db) ==
    [i \in 1..Len(db.reviews) |->
        [reviewerId |-> db.reviews[i].reviewerId, projectId |-> ThisProject,
         status |-> db.reviews[i].status]]

pendingCountsOfAllProjects(reviewRows, projectId, userId) ==
    Cardinality({i \in DOMAIN reviewRows :
                    /\ reviewRows[i].status = "pending"
                    /\ reviewRows[i].reviewerId = userId})

\* query 2 of getEligibleReviewers: count(*) where project_id = projectId and
\* status = 'pending' group by reviewer_id; ?? 0 for a reviewer without a row
pendingCounts(reviewRows, projectId, userId) ==
    Cardinality({i \in DOMAIN reviewRows :
                    /\ reviewRows[i].projectId = projectId
                    /\ reviewRows[i].status = "pending"
                    /\ reviewRows[i].reviewerId = userId})

\* excludeUserId = Null stands for undefined
getEligibleReviewersIn(projectRelations, reviewRows, projectId, excludeUserId) ==
    LET projectMembers ==
            SelectSeq(projectRelations, LAMBDA r : r.projectId = projectId)
        eligibleMembers ==
            SelectSeq(projectMembers,
                      LAMBDA member :
                          /\ ~ (excludeUserId # Null /\ member.userId = excludeUserId)
                          /\ "reviewAnnotations" \in member.permissionFlags)
    IN [i \in 1..Len(eligibleMembers) |->
          [userId |-> eligibleMembers[i].userId,
           pendingReviewCount |->
               pendingCounts(reviewRows, projectId, eligibleMembers[i].userId)]]

getEligibleReviewersAll(db, excludeUserId) ==
    [i \in 1..Len(members) |->
        [userId |-> members[i], pendingReviewCount |-> PendingCount(db, members[i])]]

\* members: the project's members holding reviewAnnotations, in row order
getEligibleReviewers(db, excludeUserId) ==
    getEligibleReviewersIn(ProjectRelations, ReviewRows(db), ThisProject, excludeUserId)

\* [...eligibleReviewers].sort((a, b) => a.pendingReviewCount - b.pendingReviewCount):
\* Array.prototype.sort is stable, equal counts keep their order
RECURSIVE sorted(_)
sorted(eligibleReviewers) ==
    IF Len(eligibleReviewers) = 0 THEN << >>
    ELSE LET n == Len(eligibleReviewers)
             front == sorted(SubSeq(eligibleReviewers, 1, n - 1))
             x == eligibleReviewers[n]
             k == Cardinality({i \in 1..Len(front) :
                                  front[i].pendingReviewCount <= x.pendingReviewCount})
         IN SubSeq(front, 1, k) \o <<x>> \o SubSeq(front, k + 1, Len(front))

\* the message of the Error thrown on an empty list
NoEligibleReviewersAvailable == "No eligible reviewers available"

selectReviewerByWorkloadUnstable(eligibleReviewers) ==
    IF Len(eligibleReviewers) = 0 THEN NoEligibleReviewersAvailable
    ELSE LET i == CHOOSE i \in 1..Len(eligibleReviewers) :
                    \A j \in 1..Len(eligibleReviewers) :
                        \/ eligibleReviewers[i].pendingReviewCount
                              < eligibleReviewers[j].pendingReviewCount
                        \/ /\ eligibleReviewers[i].pendingReviewCount
                                = eligibleReviewers[j].pendingReviewCount
                           /\ i >= j
         IN eligibleReviewers[i].userId

selectReviewerByWorkload(eligibleReviewers) ==
    IF Len(eligibleReviewers) = 0 THEN NoEligibleReviewersAvailable
    ELSE sorted(eligibleReviewers)[1].userId

\* mode "error" stands for the thrown 'no eligible reviewers' Error
determineWorkflowModeDegrading(db, annotatorId) ==
    LET excludeUserId == IF settings.allowSelfReview THEN Null ELSE annotatorId
        eligibleReviewers == getEligibleReviewers(db, excludeUserId)
    IN IF settings.reviewMode = "always-skip" \/ Len(eligibleReviewers) = 0
       THEN [mode |-> "auto-approve", assignedReviewer |-> Null]
       ELSE [mode |-> "review-required",
             assignedReviewer |->
                 IF settings.autoAssignReviewer
                 THEN selectReviewerByWorkload(eligibleReviewers) ELSE Null]

determineWorkflowMode(db, annotatorId) ==
    LET excludeUserId == IF settings.allowSelfReview THEN Null ELSE annotatorId
        eligibleReviewers == getEligibleReviewers(db, excludeUserId)
    IN IF settings.reviewMode = "always-skip"
       THEN [mode |-> "auto-approve", assignedReviewer |-> Null]
       ELSE IF settings.reviewMode = "always-required"
       THEN IF Len(eligibleReviewers) = 0
            THEN [mode |-> "error", assignedReviewer |-> Null]
            ELSE [mode |-> "review-required",
                  assignedReviewer |->
                      IF settings.autoAssignReviewer
                      THEN selectReviewerByWorkload(eligibleReviewers) ELSE Null]
       ELSE IF Len(eligibleReviewers) = 0
            THEN [mode |-> "auto-approve", assignedReviewer |-> Null]
            ELSE [mode |-> "review-required",
                  assignedReviewer |->
                      IF settings.autoAssignReviewer
                      THEN selectReviewerByWorkload(eligibleReviewers) ELSE Null]

\* hasProjectPermission(db, userId, projectId, 'reviewAnnotations')
hasProjectPermission(userId) == \E i \in 1..Len(members) : members[i] = userId

canUserReviewAlsoOwn(reviewerId, annotatorId) == hasProjectPermission(reviewerId)

canUserReview(reviewerId, annotatorId) ==
    /\ ~ (reviewerId = annotatorId /\ ~ settings.allowSelfReview)
    /\ hasProjectPermission(reviewerId)

----------------------------------------------------------------------------
(* Requests.  A call record holds the request's inputs, its position and   *)
(* the values it has read so far.  inserted, applied, open and overlap     *)
(* record what the call did and met; no handler reads them: open tells     *)
(* that a createReview arrived at an annotation open for review, overlap   *)
(* that it passed the route's checks while another one had passed them and *)
(* had not written yet.                                                    *)

IdleCall ==
    [op |-> "none", pc |-> "idle", user |-> Null, ann |-> 0, rid |-> 0,
     task |-> 0, status |-> Null, message |-> Null, result |-> Null,
     nextRound |-> 0, mode |-> Null, assigned |-> Null,
     seenAssigned |-> Null, seenStatus |-> Null,
     inserted |-> 0, applied |-> FALSE, open |-> FALSE, overlap |-> FALSE,
     data |-> Null]

Out(db, c) == [db |-> db, c |-> c]
Fail(db, c, err) == {Out(db, [c EXCEPT !.pc = "done", !.result = err])}
Goto(db, c, pc) == {Out(db, [c EXCEPT !.pc = pc])}

\* The review routes parse the request body (c.req.json, safeParse) after
\* their checks on the stored rows: a request refused by one of these checks
\* has read no status and no message.
NoBody(c) == [c EXCEPT !.status = Null, !.message = Null]
Refuse(db, c, err) == Fail(db, NoBody(c), err)

\* db.insert(reviews): the new row's id is its position
InsertReview(db, row) == Append(db.reviews, row)
HasRoom(db) == Len(db.reviews) < cap

(* completeAnnotation *)

CA_FetchAnnotation(db, c) ==
    IF c.ann \notin DOMAIN db.annotations THEN Fail(db, c, "NotFound")
    ELSE IF db.annotations[c.ann].userId # c.user THEN Fail(db, c, "Forbidden")
    ELSE IF db.annotations[c.ann].reviewStatus # "pending"
         THEN Fail(db, c, "AlreadyCompleted")
    ELSE Goto(db, c, "task")

CA_FetchTaskUnguarded(db, c) == Goto(db, c, "round")

CA_FetchTask(db, c) ==
    LET task == db.tasks[AnnTask(c.ann)]
    IN IF task.status # "annotating" /\ task.status # "changes_needed"
       THEN Fail(db, c, "InvalidTaskState")
       ELSE Goto(db, c, "round")

CA_LastRoundFirst(db, c) ==
    {Out(db, [c EXCEPT !.pc = "workflow", !.nextRound = 1])}

CA_LastRound(db, c) ==
    {Out(db, [c EXCEPT !.pc = "workflow", !.nextRound = MaxRound(db, c.ann) + 1])}

CA_Workflow(db, c) ==
    LET workflow == determineWorkflowMode(db, c.user)
    IN IF workflow.mode = "error" THEN Fail(db, c, "NoEligibleReviewers")
       ELSE {Out(db, [c EXCEPT !.pc = "write", !.mode = workflow.mode,
                               !.assigned = workflow.assignedReviewer])}

CA_AutoApproveBatchUnflagged(db, c) ==
    LET row == NewReview(c.ann, c.user, "approved", Null, FALSE, c.nextRound)
    IN IF ~ HasRoom(db) THEN {}
       ELSE {Out([tasks |-> [db.tasks EXCEPT ![AnnTask(c.ann)].status = "completed"],
                  annotations |-> [db.annotations EXCEPT
                                      ![c.ann].reviewStatus = "approved",
                                      ![c.ann].assignedReviewerId = Null],
                  reviews |-> InsertReview(db, row)],
                 [c EXCEPT !.pc = "done", !.result = "ok", !.applied = TRUE,
                           !.inserted = Len(db.reviews) + 1])}

CA_AutoApproveBatch(db, c) ==
    LET row == NewReview(c.ann, c.user, "approved", Null, TRUE, c.nextRound)
    IN IF PendingIndexViolated(db, row) THEN Fail(db, c, "StorageError")
       ELSE IF ~ HasRoom(db) THEN {}
       ELSE {Out([tasks |-> [db.tasks EXCEPT ![AnnTask(c.ann)].status = "completed"],
                  annotations |-> [db.annotations EXCEPT
                                      ![c.ann].reviewStatus = "approved",
                                      ![c.ann].assignedReviewerId = Null],
                  reviews |-> InsertReview(db, row)],
                 [c EXCEPT !.pc = "done", !.result = "ok", !.applied = TRUE,
                           !.inserted = Len(db.reviews) + 1])}

CA_ReviewBatchAlwaysInserting(db, c) ==
    {Out([db EXCEPT !.tasks[AnnTask(c.ann)].status = "in_review",
                    !.annotations[c.ann].reviewStatus = "pending",
                    !.annotations[c.ann].assignedReviewerId = c.assigned],
         [c EXCEPT !.pc = "insert", !.applied = TRUE])}

CA_ReviewBatch(db, c) ==
    {Out([db EXCEPT !.tasks[AnnTask(c.ann)].status = "in_review",
                    !.annotations[c.ann].reviewStatus = "pending",
                    !.annotations[c.ann].assignedReviewerId = c.assigned],
         IF c.assigned # Null
         THEN [c EXCEPT !.pc = "insert", !.applied = TRUE]
         ELSE [c EXCEPT !.pc = "done", !.result = "ok", !.applied = TRUE])}

CA_Write(db, c) ==
    IF c.mode = "auto-approve" THEN CA_AutoApproveBatch(db, c)
    ELSE CA_ReviewBatch(db, c)

CA_InsertReviewOfAnnotator(db, c) ==
    LET row == NewReview(c.ann, c.user, "pending", Null, FALSE, c.nextRound)
    IN IF PendingIndexViolated(db, row) THEN Fail(db, c, "StorageError")
       ELSE IF ~ HasRoom(db) THEN {}
       ELSE {Out([db EXCEPT !.reviews = InsertReview(db, row)],
                 [c EXCEPT !.pc = "done", !.result = "ok",
                           !.inserted = Len(db.reviews) + 1])}

\* the pending Review is recorded for the assigned reviewer
CA_InsertReview(db, c) ==
    LET row == NewReview(c.ann, c.assigned, "pending", Null, FALSE, c.nextRound)
    IN IF PendingIndexViolated(db, row) THEN Fail(db, c, "StorageError")
       ELSE IF ~ HasRoom(db) THEN {}
       ELSE {Out([db EXCEPT !.reviews = InsertReview(db, row)],
                 [c EXCEPT !.pc = "done", !.result = "ok",
                           !.inserted = Len(db.reviews) + 1])}

(* POST /projects/:projectId/annotations/:annotationId/reviews *)

CR_FetchAnnotation(db, c) ==
    IF ~ hasProjectPermission(c.user) THEN Refuse(db, c, "Forbidden")
    ELSE IF c.ann \notin DOMAIN db.annotations THEN Refuse(db, c, "NotFound")
    ELSE IF db.annotations[c.ann].reviewStatus \in {"approved", "rejected"}
         THEN Refuse(db, c, "AlreadyFinalized")
    ELSE {Out(db, [c EXCEPT !.pc = "task",
                            !.seenAssigned = db.annotations[c.ann].assignedReviewerId])}

CR_FetchTask(db, c) ==
    LET task == db.tasks[AnnTask(c.ann)]
    IN IF task.status # "in_review" /\ task.status # "changes_needed"
       THEN Refuse(db, c, "NotReadyForReview")
       ELSE Goto(db, c, "latest")

CR_AfterLatestAnyReviewer(db, c) ==
    IF ~ canUserReview(c.user, AnnUser(c.ann)) THEN Refuse(db, c, "Forbidden")
    ELSE IF ~ createReviewSchema(c.status, c.message)
         THEN Fail(db, c, "ValidationError")
    ELSE Goto(db, c, "round")

\* the checks after the latestReview query read no table that changes
CR_AfterLatest(db, c) ==
    IF c.seenAssigned # Null /\ c.seenAssigned # c.user THEN Refuse(db, c, "Forbidden")
    ELSE IF ~ canUserReview(c.user, AnnUser(c.ann)) THEN Refuse(db, c, "Forbidden")
    ELSE IF ~ createReviewSchema(c.status, c.message)
         THEN Fail(db, c, "ValidationError")
    ELSE Goto(db, c, "round")

CR_LatestReview(db, c) ==
    IF LatestReviews(db, c.ann) = {} THEN CR_AfterLatest(db, c)
    ELSE UNION { IF db.reviews[i].status = "pending"
                 THEN Refuse(db, c, "ReviewInProgress")
                 ELSE CR_AfterLatest(db, c) : i \in LatestReviews(db, c.ann) }

\* createReview: round read, then one batch
CR_ReadRound(db, c) ==
    {Out(db, [c EXCEPT !.pc = "write", !.nextRound = MaxRound(db, c.ann) + 1])}

CR_Batch(db, c) ==
    LET row == NewReview(c.ann, c.user, c.status, c.message, FALSE, c.nextRound)
    IN IF PendingIndexViolated(db, row) THEN Fail(db, c, "StorageError")
       ELSE IF ~ HasRoom(db) THEN {}
       ELSE {Out([tasks |-> [db.tasks EXCEPT ![AnnTask(c.ann)].status =
                                 getTaskStatusFromReviewStatus(c.status)],
                  annotations |-> [db.annotations EXCEPT ![c.ann].reviewStatus =
                                       getAnnotationReviewStatus(c.status)],
                  reviews |-> InsertReview(db, row)],
                 [c EXCEPT !.pc = "done", !.result = "ok", !.applied = TRUE,
                           !.inserted = Len(db.reviews) + 1])}

(* PATCH /projects/:projectId/reviews/:reviewId *)

UR_RouteCheck(db, c) ==
    IF ~ hasProjectPermission(c.user) THEN Refuse(db, c, "Forbidden")
    ELSE IF c.rid \notin DOMAIN db.reviews THEN Refuse(db, c, "NotFound")
    ELSE IF db.reviews[c.rid].reviewerId # c.user THEN Refuse(db, c, "Forbidden")
    ELSE IF db.reviews[c.rid].status # "pending" THEN Refuse(db, c, "ReviewFinalized")
    ELSE IF ~ updateReviewSchema(c.status, c.message)
         THEN Fail(db, c, "ValidationError")
    ELSE Goto(db, c, "existing")

UR_FetchExisting(db, c) ==
    IF c.rid \notin DOMAIN db.reviews THEN Fail(db, c, "NotFound")
    ELSE {Out(db, [c EXCEPT !.pc = "write", !.seenStatus = db.reviews[c.rid].status])}

reviewUpdate(row, c) ==
    [row EXCEPT !.status = IF c.status # Null THEN c.status ELSE @,
                !.message = IF c.message # Null THEN c.message ELSE @]

UR_WriteAlwaysMapping(db, c) ==
    LET row == db.reviews[c.rid]
        a == row.annotationId
    IN {Out([tasks |-> [db.tasks EXCEPT ![row.taskId].status =
                            getTaskStatusFromReviewStatus(c.status)],
             annotations |-> [db.annotations EXCEPT ![a].reviewStatus =
                                  getAnnotationReviewStatus(c.status)],
             reviews |-> [db.reviews EXCEPT ![c.rid] = reviewUpdate(row, c)]],
            [c EXCEPT !.pc = "done", !.result = "ok", !.applied = TRUE])}

UR_Write(db, c) ==
    LET row == db.reviews[c.rid]
        a == row.annotationId
    IN IF c.status # Null /\ c.status # c.seenStatus
       THEN {Out([tasks |-> [db.tasks EXCEPT ![row.taskId].status =
                                 getTaskStatusFromReviewStatus(c.status)],
                  annotations |-> [db.annotations EXCEPT ![a].reviewStatus =
                                       getAnnotationReviewStatus(c.status)],
                  reviews |-> [db.reviews EXCEPT ![c.rid] = reviewUpdate(row, c)]],
                 [c EXCEPT !.pc = "done", !.result = "ok", !.applied = TRUE])}
       ELSE {Out([db EXCEPT !.reviews[c.rid] = reviewUpdate(row, c)],
                 [c EXCEPT !.pc = "done", !.result = "ok"])}

(* The task endpoints: PUT /tasks/update, POST /tasks/assign/:taskId,        *)
(* POST /tasks/:taskId/unassign, POST /tasks/complete/:taskId.  Each is one *)
(* UPDATE of the task row without a condition on its status.  Of the        *)
(* columns they set only status is kept: no handler here reads assigned_to, *)
(* metadata or priority.                                                    *)

\* updates.status is optional
updateTask(db, c) ==
    {Out(IF c.status # Null
         THEN [db EXCEPT !.tasks[c.task].status = c.status] ELSE db,
         [c EXCEPT !.pc = "done", !.result = "ok"])}

assignTask(db, c) ==
    {Out([db EXCEPT !.tasks[c.task].status = "annotating"],
         [c EXCEPT !.pc = "done", !.result = "ok"])}

unassignTask(db, c) ==
    {Out([db EXCEPT !.tasks[c.task].status = "unassigned"],
         [c EXCEPT !.pc = "done", !.result = "ok"])}

completeTask(db, c) ==
    {Out([db EXCEPT !.tasks[c.task].status = "completed"],
         [c EXCEPT !.pc = "done", !.result = "ok"])}

(* GET /projects/:projectId/review-settings *)

getProjectReviewSettingsPropagating(db, c) ==
    LET workflow == determineWorkflowMode(db, c.user)
    IN IF workflow.mode = "error" THEN Fail(db, c, "NoEligibleReviewers")
       ELSE {Out(db, [c EXCEPT !.pc = "done", !.result = "ok", !.data = settings,
                               !.mode = workflow.mode])}

\* the inner catch replaces a failed resolution by 'review-required'
getProjectReviewSettings(db, c) ==
    LET workflow == determineWorkflowMode(db, c.user)
        currentWorkflowMode ==
            IF workflow.mode = "error" THEN "review-required" ELSE workflow.mode
    IN {Out(db, [c EXCEPT !.pc = "done", !.result = "ok", !.data = settings,
                          !.mode = currentWorkflowMode])}

\* the outcomes of the next step of call c
Step(db, c) ==
    CASE c.op = "CA" /\ c.pc = "annotation" -> CA_FetchAnnotation(db, c)
      [] c.op = "CA" /\ c.pc = "task"       -> CA_FetchTask(db, c)
      [] c.op = "CA" /\ c.pc = "round"      -> CA_LastRound(db, c)
      [] c.op = "CA" /\ c.pc = "workflow"   -> CA_Workflow(db, c)
      [] c.op = "CA" /\ c.pc = "write"      -> CA_Write(db, c)
      [] c.op = "CA" /\ c.pc = "insert"     -> CA_InsertReview(db, c)
      [] c.op = "CR" /\ c.pc = "annotation" -> CR_FetchAnnotation(db, c)
      [] c.op = "CR" /\ c.pc = "task"       -> CR_FetchTask(db, c)
      [] c.op = "CR" /\ c.pc = "latest"     -> CR_LatestReview(db, c)
      [] c.op = "CR" /\ c.pc = "round"      -> CR_ReadRound(db, c)
      [] c.op = "CR" /\ c.pc = "write"      -> CR_Batch(db, c)
      [] c.op = "UR" /\ c.pc = "review"     -> UR_RouteCheck(db, c)
      [] c.op = "UR" /\ c.pc = "existing"   -> UR_FetchExisting(db, c)
      [] c.op = "UR" /\ c.pc = "write"      -> UR_Write(db, c)
      [] c.op = "CT" /\ c.pc = "update"     -> completeTask(db, c)
      [] c.op = "UT" /\ c.pc = "update"     -> updateTask(db, c)
      [] c.op = "AT" /\ c.pc = "update"     -> assignTask(db, c)
      [] c.op = "UN" /\ c.pc = "update"     -> unassignTask(db, c)
      [] c.op = "GS" /\ c.pc = "settings"   -> getProjectReviewSettings(db, c)
      [] OTHER -> {}

\* a request served from its first step to its response
RECURSIVE Run(_, _)
Run(db, c) ==
    IF c.pc = "done" THEN {Out(db, c)}
    ELSE UNION {Run(o.db, o.c) : o \in Step(db, c)}

----------------------------------------------------------------------------
(* Initial state: a task handed to its annotators, their annotations saved *)
(* with the column defaults, no review yet.                                *)

\* a call of one of the allocator's functions: its arguments
NoQuery ==
    [op |-> "none", projectRelations |-> << >>, reviewRows |-> << >>,
     projectId |-> ThisProject, excludeUserId |-> Null,
     eligibleReviewers |-> << >>]
NoAnswer == [done |-> FALSE, value |-> << >>]

SettingsConfigs ==
    [reviewMode : reviewModeValues, allowSelfReview : BOOLEAN,
     autoAssignReviewer : BOOLEAN]

\* project_relations rows whose role holds reviewAnnotations, in row order
MemberConfigs == {<<>>, <<"A">>, <<"B">>, <<"B", "C">>, <<"C", "B">>, <<"A", "B">>}

InitDB(ids) ==
    /\ tasks = [t \in TaskIds |-> [status |-> "annotating"]]
    /\ annotations = [a \in ids |->
                        [taskId |-> AnnTask(a), userId |-> AnnUser(a),
                         reviewStatus |-> "pending", assignedReviewerId |-> Null]]
    /\ reviews = << >>
    /\ calls = [s \in Slots |-> IdleCall]
    /\ started = 0
    /\ last = [c |-> IdleCall, pre |-> DB]
    /\ prev = IdleCall
    /\ query = NoQuery
    /\ answer = NoAnswer

\* the settings and members two interleaved requests are checked under
RaceSettings ==
    {c \in SettingsConfigs :
        /\ ~ c.allowSelfReview
        /\ c.reviewMode = "always-skip" => c.autoAssignReviewer}
RaceMembers == {<<"B">>, <<"B", "C">>}

Init ==
    /\ InitDB({1})
    /\ settings \in RaceSettings
    /\ members \in RaceMembers
    /\ cap = MaxRaceReviews

InitSerial ==
    /\ InitDB({1})
    /\ settings \in SettingsConfigs
    /\ members \in MemberConfigs
    /\ cap = MaxReviews

OpenForReview(db, a) ==
    /\ db.annotations[a].reviewStatus \notin {"approved", "rejected"}
    /\ db.tasks[AnnTask(a)].status \in {"in_review", "changes_needed"}
    /\ \A i \in ReviewsOf(db, a) : db.reviews[i].status # "pending"
    /\ db.annotations[a].assignedReviewerId = Null

NewCA(u, a) == [IdleCall EXCEPT !.op = "CA", !.pc = "annotation", !.user = u, !.ann = a]
NewCR(u, a, st, m) ==
    [IdleCall EXCEPT !.op = "CR", !.pc = "annotation", !.user = u, !.ann = a,
                     !.status = st, !.message = m]
NewUR(u, r, st, m) ==
    [IdleCall EXCEPT !.op = "UR", !.pc = "review", !.user = u, !.rid = r,
                     !.status = st, !.message = m]
NewCT(t) == [IdleCall EXCEPT !.op = "CT", !.pc = "update", !.task = t]
NewUT(t, st) ==
    [IdleCall EXCEPT !.op = "UT", !.pc = "update", !.task = t, !.status = st]
NewAT(t) == [IdleCall EXCEPT !.op = "AT", !.pc = "update", !.task = t]
NewUN(t) == [IdleCall EXCEPT !.op = "UN", !.pc = "update", !.task = t]
NewGS(u) == [IdleCall EXCEPT !.op = "GS", !.pc = "settings", !.user = u]

----------------------------------------------------------------------------
(* Spec: interleaved requests *)

\* what is kept of a finished request: who asked for what, and the response
Response(c) ==
    IF c.pc # "done" THEN c
    ELSE [IdleCall EXCEPT !.op = c.op, !.pc = "done", !.user = c.user,
                          !.ann = c.ann, !.result = c.result,
                          !.assigned = c.assigned, !.applied = c.applied,
                          !.inserted = c.inserted,
                          !.open = c.open, !.overlap = c.overlap]

\* the outcome o of a step of the request in slot s takes effect
Apply(s, o) ==
    /\ tasks' = o.db.tasks
    /\ annotations' = o.db.annotations
    /\ reviews' = o.db.reviews
    /\ calls' = [calls EXCEPT ![s] = Response(o.c)]
    /\ UNCHANGED <<config, last, prev>>

\* a request arrives and runs up to its first storage round trip
Begin(s, c) ==
    /\ calls[s].pc = "idle"
    /\ started < MaxRequests
    /\ started' = started + 1
    /\ \E o \in Step(DB, [c EXCEPT
                 !.open = (c.op = "CR" /\ OpenForReview(DB, c.ann))]) :
          Apply(s, o)

RaceMessages == {Null, "fix"}

CompleteAnnotationFetchAnnotation(s) ==
    \E u \in Users, a \in DOMAIN annotations : Begin(s, NewCA(u, a))

\* the body is read after the latestReview query
CreateReviewFetchAnnotation(s) ==
    \E u \in Users, a \in DOMAIN annotations : Begin(s, NewCR(u, a, Null, Null))

UpdateReviewRouteCheck(s) ==
    \E u \in Users, r \in DOMAIN reviews, st \in reviewActionValues \cup {Null},
       m \in Messages :
        Begin(s, NewUR(u, r, st, m))

\* another createReview on the same annotation has passed the route's checks
\* and has not written yet
PassedBeside(s) ==
    \E x \in Slots \ {s} :
        /\ calls[x].op = "CR" /\ calls[x].ann = calls[s].ann
        /\ calls[x].pc \in {"round", "write"}

DoStep(s, op, pc) ==
    /\ calls[s].op = op
    /\ calls[s].pc = pc
    /\ UNCHANGED started
    /\ \E o \in Step(DB, calls[s]) : Apply(s, o)

CompleteAnnotationFetchTask(s) == DoStep(s, "CA", "task")
CompleteAnnotationLastRound(s) == DoStep(s, "CA", "round")
CompleteAnnotationWorkflow(s) == DoStep(s, "CA", "workflow")
CompleteAnnotationWrite(s) == DoStep(s, "CA", "write")
CompleteAnnotationInsertReview(s) == DoStep(s, "CA", "insert")
CreateReviewFetchTask(s) == DoStep(s, "CR", "task")
CreateReviewLatestReview(s) ==
    /\ calls[s].op = "CR"
    /\ calls[s].pc = "latest"
    /\ UNCHANGED started
    /\ \E st \in reviewActionValues, m \in RaceMessages :
          \E o \in Step(DB, [calls[s] EXCEPT !.status = st, !.message = m]) :
              Apply(s, [o EXCEPT !.c.overlap = (o.c.pc = "round" /\ PassedBeside(s))])
CreateReviewReadRound(s) == DoStep(s, "CR", "round")
CreateReviewBatch(s) == DoStep(s, "CR", "write")
UpdateReviewFetchExisting(s) == DoStep(s, "UR", "existing")
UpdateReviewWrite(s) == DoStep(s, "UR", "write")

\* the response is sent; the slot takes the next request
Return(s) ==
    /\ calls[s].pc = "done"
    /\ calls' = [calls EXCEPT ![s] = IdleCall]
    /\ UNCHANGED <<tasks, annotations, reviews, config, started, last, prev>>

\* a task endpoint: one UPDATE, no guard, served in one step
TaskRequest(c) ==
    /\ started < MaxRequests
    /\ started' = started + 1
    /\ \E o \in Step(DB, c) :
          /\ tasks' = o.db.tasks
          /\ annotations' = o.db.annotations
          /\ reviews' = o.db.reviews
    /\ UNCHANGED <<config, calls, last, prev>>

CompleteTask(t) == TaskRequest(NewCT(t))
UpdateTask(t) == \E st \in taskStatusEnum \cup {Null} : TaskRequest(NewUT(t, st))
AssignTask(t) == TaskRequest(NewAT(t))
UnassignTask(t) == TaskRequest(NewUN(t))

Next ==
    \/ \E s \in Slots : CompleteAnnotationFetchAnnotation(s)
    \/ \E s \in Slots : CompleteAnnotationFetchTask(s)
    \/ \E s \in Slots : CompleteAnnotationLastRound(s)
    \/ \E s \in Slots : CompleteAnnotationWorkflow(s)
    \/ \E s \in Slots : CompleteAnnotationWrite(s)
    \/ \E s \in Slots : CompleteAnnotationInsertReview(s)
    \/ \E s \in Slots : CreateReviewFetchAnnotation(s)
    \/ \E s \in Slots : CreateReviewFetchTask(s)
    \/ \E s \in Slots : CreateReviewLatestReview(s)
    \/ \E s \in Slots : CreateReviewReadRound(s)
    \/ \E s \in Slots : CreateReviewBatch(s)
    \/ \E s \in Slots : UpdateReviewRouteCheck(s)
    \/ \E s \in Slots : UpdateReviewFetchExisting(s)
    \/ \E s \in Slots : UpdateReviewWrite(s)
    \/ \E s \in Slots : Return(s)
    \/ \E t \in TaskIds : CompleteTask(t)
    \/ \E t \in TaskIds : UpdateTask(t)
    \/ \E t \in TaskIds : AssignTask(t)
    \/ \E t \in TaskIds : UnassignTask(t)

Spec == Init /\ [][Next]_vars

----------------------------------------------------------------------------
(* SpecSerial: one request at a time *)

Serve(c) ==
    /\ last.c.pc = "idle"
    /\ \E o \in Run(DB, c) :
          /\ tasks' = o.db.tasks
          /\ annotations' = o.db.annotations
          /\ reviews' = o.db.reviews
          /\ last' = [c |-> o.c, pre |-> DB]
    /\ UNCHANGED <<config, calls, started, prev>>

\* the response is sent; prev keeps the request when it was a successful
\* completeAnnotation, so that an immediate repetition can be told
Respond ==
    /\ last.c.pc = "done"
    /\ last' = [c |-> IdleCall, pre |-> DB]
    /\ prev' = IF last.c.op = "CA" /\ last.c.result = "ok" THEN last.c ELSE IdleCall
    /\ UNCHANGED <<tasks, annotations, reviews, config, calls, started>>

ServeCompleteAnnotation ==
    \E u \in Users, a \in DOMAIN annotations : Serve(NewCA(u, a))

ServeCreateReview ==
    \E u \in Users, a \in DOMAIN annotations, st \in reviewActionValues, m \in Messages :
        Serve(NewCR(u, a, st, m))

ServeUpdateReview ==
    \E u \in Users, r \in 1..(Len(reviews) + 1), st \in reviewActionValues \cup {Null},
       m \in Messages :
        Serve(NewUR(u, r, st, m))

ServeCompleteTask == \E t \in TaskIds : Serve(NewCT(t))
ServeUpdateTask ==
    \E t \in TaskIds, st \in taskStatusEnum \cup {Null} : Serve(NewUT(t, st))
ServeAssignTask == \E t \in TaskIds : Serve(NewAT(t))
ServeUnassignTask == \E t \in TaskIds : Serve(NewUN(t))
ServeGetProjectReviewSettings == \E u \in Users : Serve(NewGS(u))

NextSerial ==
    \/ ServeCompleteAnnotation
    \/ ServeCreateReview
    \/ ServeUpdateReview
    \/ ServeCompleteTask
    \/ ServeUpdateTask
    \/ ServeAssignTask
    \/ ServeUnassignTask
    \/ ServeGetProjectReviewSettings
    \/ Respond

SpecSerial == InitSerial /\ [][NextSerial]_vars

----------------------------------------------------------------------------
(* SpecShared: one request at a time, two annotations of one Task *)

\* annotations.task_id carries no unique constraint: the Task holds the
\* annotation of A and the annotation of B
SharedAnnotations == {1, 2}
SharedSettings ==
    {c \in SettingsConfigs : ~ c.allowSelfReview /\ c.autoAssignReviewer}
SharedMembers == {<<"B", "C">>}

InitShared ==
    /\ InitDB(SharedAnnotations)
    /\ settings \in SharedSettings
    /\ members \in SharedMembers
    /\ cap = MaxSharedReviews

SpecShared == InitShared /\ [][NextSerial]_vars

----------------------------------------------------------------------------
(* SpecFair: one request at a time; every response is sent, and a reviewer *)
(* who can decide on an annotation eventually has a decision served        *)

\* a reviewer's decision on annotation a that the program accepts: PATCH of
\* one of its Reviews or POST of a new Review, with a status
Decide(a) ==
    \E u \in Users, st \in reviewActionValues, m \in Messages :
        /\ \/ \E r \in ReviewsOf(DB, a) : Serve(NewUR(u, r, st, m))
           \/ Serve(NewCR(u, a, st, m))
        /\ last'.c.result = "ok"

\* settings under which completeAnnotation can leave a Task in_review
FairSettings ==
    {c \in SettingsConfigs : c.reviewMode # "always-skip" /\ ~ c.allowSelfReview}
FairMembers == {<<"B", "C">>}

InitFair ==
    /\ InitDB({1})
    /\ settings \in FairSettings
    /\ members \in FairMembers
    /\ cap = MaxFairReviews

SpecFair ==
    /\ InitFair
    /\ [][NextSerial]_vars
    /\ WF_vars(Respond)
    /\ \A a \in {1} : SF_vars(Decide(a))

----------------------------------------------------------------------------
(* SpecAllocator: the allocator's functions applied to rows of two projects *)

SeqsUpTo(S, n) == UNION {[1..k -> S] : k \in 0..n}

Reviewers == {"A", "B"}

RelationRows ==
    [userId : Reviewers, projectId : Projects,
     permissionFlags : {{}, {"reviewAnnotations"}}]
ReviewRowValues ==
    [reviewerId : Reviewers, projectId : Projects, status : {"pending", "approved"}]

EligibleQueries ==
    {[NoQuery EXCEPT !.op = "getEligibleReviewers", !.projectRelations = rel,
                     !.reviewRows = rows, !.projectId = p, !.excludeUserId = ex] :
        rel \in SeqsUpTo(RelationRows, MaxRelations),
        rows \in SeqsUpTo(ReviewRowValues, MaxReviewRows),
        p \in Projects, ex \in Reviewers \cup {Null}}

CandidateRows == [userId : Users, pendingReviewCount : 0..MaxPendingCount]

SelectQueries ==
    {[NoQuery EXCEPT !.op = "selectReviewerByWorkload", !.eligibleReviewers = e] :
        e \in SeqsUpTo(CandidateRows, MaxCandidates)}

InitAllocator ==
    /\ tasks = [t \in TaskIds |-> [status |-> "annotating"]]
    /\ annotations = << >>
    /\ reviews = << >>
    /\ settings = [reviewMode |-> "auto", allowSelfReview |-> FALSE,
                   autoAssignReviewer |-> TRUE]
    /\ members = << >>
    /\ cap = MaxReviews
    /\ calls = [s \in Slots |-> IdleCall]
    /\ started = 0
    /\ last = [c |-> IdleCall, pre |-> DB]
    /\ prev = IdleCall
    /\ query \in EligibleQueries \cup SelectQueries
    /\ answer = NoAnswer

Answer(value) ==
    /\ ~ answer.done
    /\ answer' = [done |-> TRUE, value |-> value]
    /\ UNCHANGED <<tasks, annotations, reviews, settings, members, cap, calls,
                   started, last, prev, query>>

GetEligibleReviewers ==
    /\ query.op = "getEligibleReviewers"
    /\ Answer(getEligibleReviewersIn(query.projectRelations, query.reviewRows,
                                     query.projectId, query.excludeUserId))

SelectReviewerByWorkload ==
    /\ query.op = "selectReviewerByWorkload"
    /\ Answer(selectReviewerByWorkload(query.eligibleReviewers))

NextAllocator ==
    \/ GetEligibleReviewers
    \/ SelectReviewerByWorkload

SpecAllocator == InitAllocator /\ [][NextAllocator]_vars

\* the users of a list of candidates
UserIds(candidates) == {candidates[i].userId : i \in 1..Len(candidates)}

\* C22: getEligibleReviewers(projectId, excludeUserId) returns exactly the
\* members of the project whose role has reviewAnnotations, minus
\* excludeUserId, each with the number of the pending Reviews of that project
\* whose reviewerId is that user; pending Reviews of other projects do not
\* count.
C22_EligibleReviewers ==
    (query.op = "getEligibleReviewers" /\ answer.done) =>
        /\ UserIds(answer.value)
              = {query.projectRelations[i].userId :
                    i \in {j \in 1..Len(query.projectRelations) :
                              /\ query.projectRelations[j].projectId = query.projectId
                              /\ "reviewAnnotations"
                                    \in query.projectRelations[j].permissionFlags}}
                \ {query.excludeUserId}
        /\ \A i \in 1..Len(answer.value) :
              answer.value[i].pendingReviewCount
                  = Cardinality({j \in 1..Len(query.reviewRows) :
                                    /\ query.reviewRows[j].status = "pending"
                                    /\ query.reviewRows[j].reviewerId
                                          = answer.value[i].userId
                                    /\ query.reviewRows[j].projectId = query.projectId})

\* a reviewer with a pending Review in each project is counted once
C22_Witness ==
    /\ query.op = "getEligibleReviewers" /\ answer.done
    /\ Len(answer.value) = 1
    /\ answer.value[1].pendingReviewCount = 1
    /\ Len(query.reviewRows) = 2
    /\ \A j \in 1..2 :
          /\ query.reviewRows[j].status = "pending"
          /\ query.reviewRows[j].reviewerId = answer.value[1].userId
    /\ query.excludeUserId \in UserIds(query.projectRelations)

\* C23: selectReviewerByWorkload fails with the no-eligible-reviewers error
\* on an empty list, and on a non-empty list returns the userId of the first
\* candidate of the list whose pendingReviewCount is the minimum.
C23_SelectByWorkload ==
    (query.op = "selectReviewerByWorkload" /\ answer.done) =>
        LET e == query.eligibleReviewers
        IN IF Len(e) = 0 THEN answer.value = NoEligibleReviewersAvailable
           ELSE \E i \in 1..Len(e) :
                   /\ answer.value = e[i].userId
                   /\ \A j \in 1..Len(e) :
                         e[i].pendingReviewCount <= e[j].pendingReviewCount
                   /\ \A j \in 1..(i - 1) :
                         e[j].pendingReviewCount > e[i].pendingReviewCount

\* two candidates tied at the minimum behind a busier one
C23_Witness ==
    /\ query.op = "selectReviewerByWorkload" /\ answer.done
    /\ Len(query.eligibleReviewers) = 3
    /\ query.eligibleReviewers[1].pendingReviewCount = 2
    /\ query.eligibleReviewers[2].pendingReviewCount = 1
    /\ query.eligibleReviewers[3].pendingReviewCount = 1
    /\ query.eligibleReviewers[2].userId # query.eligibleReviewers[3].userId
    /\ answer.value = query.eligibleReviewers[2].userId

----------------------------------------------------------------------------
(* Properties of interleaved requests (Spec) *)

PendingOf(a) == {i \in ReviewsOf(DB, a) : reviews[i].status = "pending"}

\* C1: in every reachable state each annotation has at most one Review
\* whose status is pending.
C1_OnePendingPerAnnotation ==
    \A a \in DOMAIN annotations : Cardinality(PendingOf(a)) <= 1

\* a second completeAnnotation was refused by the index while the first
\* one's pending Review stands
C1_Witness ==
    \E s \in Slots, a \in DOMAIN annotations :
        /\ calls[s].op = "CA" /\ calls[s].ann = a
        /\ calls[s].pc = "done" /\ calls[s].result = "StorageError"
        /\ Cardinality(PendingOf(a)) = 1

Eligible(u, a) == hasProjectPermission(u) /\ canUserReview(u, AnnUser(a))

\* C2: of two CreateReview calls by different eligible reviewers on an
\* annotation open for review, the second passing the checks before the first
\* has written, exactly one succeeds, the other one receives ReviewInProgress,
\* and one pending Review exists afterwards.
C2_OneCreateReviewWins ==
    \A s, t \in Slots :
        ( /\ s # t
          /\ calls[s].op = "CR" /\ calls[t].op = "CR"
          /\ calls[s].pc = "done" /\ calls[t].pc = "done"
          /\ calls[s].ann = calls[t].ann
          /\ calls[s].user # calls[t].user
          /\ Eligible(calls[s].user, calls[s].ann)
          /\ Eligible(calls[t].user, calls[t].ann)
          /\ calls[s].open /\ calls[t].open
          /\ calls[t].overlap )
        => /\ {calls[s].result, calls[t].result} = {"ok", "ReviewInProgress"}
           /\ Cardinality(PendingOf(calls[s].ann)) = 1

\* C3: in every reachable state the reviewRound values of an annotation's
\* Reviews are exactly 1..n, without gap or duplicate.
C3_RoundsContiguous ==
    \A a \in DOMAIN annotations :
        /\ {reviews[i].reviewRound : i \in ReviewsOf(DB, a)}
              = 1..Cardinality(ReviewsOf(DB, a))
        /\ \A i, j \in ReviewsOf(DB, a) :
              reviews[i].reviewRound = reviews[j].reviewRound => i = j

\* C4: the writes of one CompleteAnnotation call are one atomic step: no state
\* shows its Task and Annotation written without the Review of the reviewer it
\* resolved, and a call that failed has applied none of its writes.
C4_CompleteAnnotationAtomic ==
    \A s \in Slots :
        calls[s].op = "CA" =>
            /\ (calls[s].applied /\ calls[s].assigned # Null)
                  => calls[s].inserted # 0
            /\ (calls[s].pc = "done" /\ calls[s].result # "ok")
                  => ~ calls[s].applied

\* the mapping table of decisions: <<Annotation.reviewStatus, Task.status>>
DecisionImage(d) ==
    CASE d = "approved" -> <<"approved", "completed">>
      [] d = "rejected" -> <<"rejected", "changes_needed">>
      [] d = "changes_requested" -> <<"pending", "changes_needed">>

ImageHolds(a, d) ==
    <<annotations'[a].reviewStatus, tasks'[AnnTask(a)].status>> = DecisionImage(d)

Succeeds(s) == calls[s].pc = "write" /\ calls'[s].pc = "done" /\ calls'[s].result = "ok"

\* C5: a step in which a CreateReview, or an UpdateReview that changes the
\* Review's status, succeeds with decision d leaves the Annotation's
\* reviewStatus and the Task's status at the image of d; a step in which an
\* auto-approving CompleteAnnotation succeeds leaves them at approved, completed.
C5_MappingApplied ==
    [][\A s \in Slots :
          /\ (calls[s].op = "CR" /\ Succeeds(s))
                => ImageHolds(calls[s].ann, calls[s].status)
          /\ ( /\ calls[s].op = "UR" /\ Succeeds(s)
               /\ reviews'[calls[s].rid].status # reviews[calls[s].rid].status )
                => ImageHolds(reviews[calls[s].rid].annotationId, calls[s].status)
          /\ (calls[s].op = "CA" /\ Succeeds(s) /\ calls[s].mode = "auto-approve")
                => ImageHolds(calls[s].ann, "approved")]_vars

\* a changes_requested decision was recorded and the annotation is back with
\* its annotator
C5_Witness ==
    \E s \in Slots, i \in DOMAIN reviews :
        /\ calls[s].op \in {"CR", "UR"} /\ calls[s].pc = "done"
        /\ calls[s].result = "ok" /\ calls[s].applied
        /\ reviews[i].status = "changes_requested"
        /\ annotations[reviews[i].annotationId].reviewStatus = "pending"
        /\ tasks[reviews[i].taskId].status = "changes_needed"

ApprovedRecorded(t) ==
    \/ \E i \in DOMAIN reviews' \ DOMAIN reviews :
          reviews'[i].taskId = t /\ reviews'[i].status = "approved"
    \/ \E i \in DOMAIN reviews :
          /\ reviews[i].taskId = t /\ reviews[i].status = "pending"
          /\ reviews'[i].status = "approved"

\* C6: in every step, a Task that becomes in_review was annotating or
\* changes_needed before, and a Task that becomes completed does so in a step
\* that records an approved decision for one of its annotations.
C6_TaskTransitions ==
    [][\A t \in TaskIds :
          /\ (tasks'[t].status = "in_review" /\ tasks[t].status # "in_review")
                => tasks[t].status \in {"annotating", "changes_needed"}
          /\ (tasks'[t].status = "completed" /\ tasks[t].status # "completed")
                => ApprovedRecorded(t)]_vars

\* C9: a Review whose status is approved, rejected or changes_requested
\* never changes its status or message again, also when two UpdateReview
\* calls on the same pending Review interleave.
C9_DecidedReviewImmutable ==
    [][\A i \in DOMAIN reviews :
          reviews[i].status # "pending"
             => /\ reviews'[i].status = reviews[i].status
                /\ reviews'[i].message = reviews[i].message]_vars

----------------------------------------------------------------------------
(* Properties of requests served one at a time (SpecSerial) *)

Served(op) == last.c.op = op /\ last.c.pc = "done"

Unwritten == DB = last.pre

\* the request repeats the successful completeAnnotation served right before it
Repeated ==
    /\ Served("CA")
    /\ prev.op = "CA" /\ prev.ann = last.c.ann /\ prev.user = last.c.user

\* C7 as claimed: a CompleteAnnotation that repeats a successful one fails
\* with AlreadyCompleted in every review mode and writes nothing.
C7_SecondAlreadyCompleted ==
    Repeated => last.c.result = "AlreadyCompleted" /\ Unwritten

\* C7 as amended: the repetition writes nothing and fails with
\* AlreadyCompleted when the first call auto-approved, and with
\* InvalidTaskState when the first call put the annotation in review.
C7_SecondRefused ==
    Repeated =>
        /\ Unwritten
        /\ prev.mode = "auto-approve" => last.c.result = "AlreadyCompleted"
        /\ prev.mode = "review-required" => last.c.result = "InvalidTaskState"
        /\ prev.mode \in {"auto-approve", "review-required"}

C7_Witness ==
    /\ Repeated
    /\ last.c.result = "InvalidTaskState"
    /\ tasks[AnnTask(last.c.ann)].status = "in_review"

\* the annotation is in review with the auto-assigned reviewer u: Task
\* in_review, one Review, pending, of reviewer u, round 1
InReviewWith(db, a, u) ==
    /\ db.tasks[AnnTask(a)].status = "in_review"
    /\ db.annotations[a].reviewStatus = "pending"
    /\ db.annotations[a].assignedReviewerId = u
    /\ \E i \in ReviewsOf(db, a) :
          /\ ReviewsOf(db, a) = {i}
          /\ db.reviews[i].status = "pending"
          /\ db.reviews[i].reviewerId = u
          /\ db.reviews[i].reviewRound = 1

\* the assigned reviewer u has asked for changes in round 1, the only round
ChangesAsked(db, a, u) ==
    /\ db.tasks[AnnTask(a)].status = "changes_needed"
    /\ db.annotations[a].reviewStatus = "pending"
    /\ db.annotations[a].assignedReviewerId = u
    /\ \E i \in ReviewsOf(db, a) :
          /\ ReviewsOf(db, a) = {i}
          /\ db.reviews[i].status = "changes_requested"
          /\ db.reviews[i].reviewerId = u
          /\ db.reviews[i].reviewRound = 1

AsksChanges(c) ==
    c.status = "changes_requested" /\ c.message # Null /\ Trim(c.message) # ""

\* C8 as claimed: CreateReview by the auto-assigned reviewer of an annotation
\* in review is refused by no check on the stored rows, and with
\* changes_requested and a message it succeeds and sets the Task to
\* changes_needed and the Annotation to pending.
C8_CreateReviewByAssignee ==
    ( /\ Served("CR")
      /\ InReviewWith(last.pre, last.c.ann, last.c.user) )
    => /\ last.c.result \in {"ok", "ValidationError"}
       /\ AsksChanges(last.c)
             => /\ last.c.result = "ok"
                /\ tasks[AnnTask(last.c.ann)].status = "changes_needed"
                /\ annotations[last.c.ann].reviewStatus = "pending"

\* C8 as amended: in that state CreateReview by the assigned reviewer fails
\* with ReviewInProgress and writes nothing; UpdateReview of the pending Review
\* by that reviewer with changes_requested and a message succeeds and sets the
\* Task to changes_needed and the Annotation to pending; the CompleteAnnotation
\* by the annotator that follows succeeds and its new Review has round 2.
C8_ChangesThenRoundTwo ==
    /\ ( /\ Served("CR")
         /\ last.c.ann \in DOMAIN annotations
         /\ InReviewWith(last.pre, last.c.ann, last.c.user) )
       => last.c.result = "ReviewInProgress" /\ Unwritten
    /\ ( /\ Served("UR")
         /\ last.c.rid \in DOMAIN last.pre.reviews
         /\ InReviewWith(last.pre, last.pre.reviews[last.c.rid].annotationId,
                         last.c.user)
         /\ AsksChanges(last.c) )
       => /\ last.c.result = "ok"
          /\ ChangesAsked(DB, reviews[last.c.rid].annotationId, last.c.user)
    /\ ( /\ Served("CA")
         /\ last.c.user = AnnUser(last.c.ann)
         /\ \E u \in Users : ChangesAsked(last.pre, last.c.ann, u) )
       => /\ last.c.result = "ok"
          /\ last.c.inserted \in ReviewsOf(DB, last.c.ann)
          /\ reviews[last.c.inserted].reviewRound = 2
          /\ reviews[last.c.inserted].status = "pending"

C8_Witness ==
    /\ Served("CA")
    /\ \E u \in Users : ChangesAsked(last.pre, last.c.ann, u)
    /\ last.c.result = "ok"
    /\ reviews[last.c.inserted].reviewRound = 2

\* no member but the annotator, who is excluded, holds reviewAnnotations
NoOtherReviewer(u) ==
    \A i \in 1..Len(members) : members[i] = u /\ ~ settings.allowSelfReview

Completable(db, c) ==
    /\ db.annotations[c.ann].userId = c.user
    /\ db.annotations[c.ann].reviewStatus = "pending"
    /\ db.tasks[AnnTask(c.ann)].status \in {"annotating", "changes_needed"}

\* C10: with reviewMode always-required and no eligible reviewer,
\* CompleteAnnotation fails and leaves Task, Annotation and Reviews unchanged,
\* with NoEligibleReviewers when its preconditions hold; in no other review
\* mode does it fail with NoEligibleReviewers.
C10_NoEligibleReviewers ==
    Served("CA") =>
        /\ (settings.reviewMode = "always-required" /\ NoOtherReviewer(last.c.user))
              => /\ last.c.result # "ok"
                 /\ Unwritten
                 /\ Completable(last.pre, last.c)
                       => last.c.result = "NoEligibleReviewers"
        /\ last.c.result = "NoEligibleReviewers"
              => settings.reviewMode = "always-required"

C10_Witness ==
    /\ Served("CA")
    /\ last.c.result = "NoEligibleReviewers"
    /\ Unwritten
    /\ tasks[AnnTask(last.c.ann)].status = "annotating"

----------------------------------------------------------------------------
(* Contracts of completeAnnotation (SpecSerial) *)

\* the Reviews of db followed by one more row
OneInserted(pre, row) == reviews = Append(pre.reviews, row)

EligibleSet(annotatorId) ==
    {members[i] : i \in 1..Len(members)}
        \ (IF settings.allowSelfReview THEN {} ELSE {annotatorId})

\* C12: with reviewMode auto, determineWorkflowMode returns auto-approve
\* exactly when the set of eligible reviewers is empty and review-required
\* otherwise, and an assignedReviewer exactly when the mode is review-required
\* and autoAssignReviewer is true; a CompleteAnnotation call resolves so.
C12_AutoModeResolution ==
    settings.reviewMode = "auto" =>
        /\ \A u \in Users :
              LET w == determineWorkflowMode(DB, u)
              IN /\ w.mode = "auto-approve" <=> EligibleSet(u) = {}
                 /\ w.mode = "review-required" <=> EligibleSet(u) # {}
                 /\ w.assignedReviewer # Null
                       <=> (w.mode = "review-required" /\ settings.autoAssignReviewer)
        /\ (Served("CA") /\ last.c.result = "ok") =>
              /\ last.c.mode = "auto-approve" <=> EligibleSet(last.c.user) = {}
              /\ last.c.mode = "review-required" <=> EligibleSet(last.c.user) # {}
              /\ last.c.assigned # Null
                    <=> (last.c.mode = "review-required" /\ settings.autoAssignReviewer)

\* the only member who may review is the annotator: auto-approved
C12_Witness ==
    /\ Served("CA")
    /\ settings.reviewMode = "auto" /\ ~ settings.allowSelfReview
    /\ Len(members) > 0
    /\ last.c.result = "ok" /\ last.c.mode = "auto-approve"
    /\ annotations[last.c.ann].reviewStatus = "approved"

\* u is an eligible reviewer with the fewest pending Reviews in db
LeastLoaded(db, u, annotatorId) ==
    /\ u \in EligibleSet(annotatorId)
    /\ \A v \in EligibleSet(annotatorId) : PendingCount(db, u) <= PendingCount(db, v)

\* C13: a CompleteAnnotation that resolves review-required with
\* autoAssignReviewer assigns an eligible reviewer with the fewest pending
\* Reviews, and after the call the Task is in_review, the Annotation pending
\* and assigned to that reviewer, and one pending Review of that reviewer, not
\* auto-approved, with round = highest round (or 0) + 1, has been inserted.
C13_AssignsLeastLoaded ==
    ( /\ Served("CA")
      /\ last.c.mode = "review-required"
      /\ settings.autoAssignReviewer )
    => /\ LeastLoaded(last.pre, last.c.assigned, last.c.user)
       /\ tasks[AnnTask(last.c.ann)].status = "in_review"
       /\ annotations[last.c.ann].reviewStatus = "pending"
       /\ annotations[last.c.ann].assignedReviewerId = last.c.assigned
       /\ OneInserted(last.pre,
                      NewReview(last.c.ann, last.c.assigned, "pending", Null, FALSE,
                                MaxRound(last.pre, last.c.ann) + 1))
       /\ Cardinality(PendingOf(last.c.ann)) = 1

----------------------------------------------------------------------------
(* Finality, refusals and errors under interleaved requests (Spec) *)

Finalized(a) == annotations[a].reviewStatus \in {"approved", "rejected"}

Arrives(s, op) == calls[s].pc = "idle" /\ calls'[s].op = op

\* C14: an Annotation whose reviewStatus is approved or rejected is final:
\* a CreateReview arriving for it fails with AlreadyFinalized and a
\* CompleteAnnotation with AlreadyCompleted, without a write, and no step of
\* interleaved CreateReview, UpdateReview and CompleteAnnotation calls changes
\* its reviewStatus or adds a Review to it.
C14_FinalizedIsFinal ==
    [][\A a \in DOMAIN annotations :
          Finalized(a) =>
              /\ \A s \in Slots :
                    /\ ( /\ Arrives(s, "CR") /\ calls'[s].ann = a
                         /\ hasProjectPermission(calls'[s].user) )
                       => calls'[s].result = "AlreadyFinalized"
                    /\ ( /\ Arrives(s, "CA") /\ calls'[s].ann = a
                         /\ calls'[s].user = annotations[a].userId )
                       => calls'[s].result = "AlreadyCompleted"
              /\ annotations'[a].reviewStatus = annotations[a].reviewStatus
              /\ {i \in DOMAIN reviews' : reviews'[i].annotationId = a}
                    = ReviewsOf(DB, a)]_vars

----------------------------------------------------------------------------
(* Contracts of the review routes (SpecSerial) *)

\* the checks the POST route makes before it looks at the assignment pass
ReviewableBy(db, a, u) ==
    /\ hasProjectPermission(u)
    /\ db.annotations[a].reviewStatus \notin {"approved", "rejected"}
    /\ db.tasks[AnnTask(a)].status \in {"in_review", "changes_needed"}
    /\ \A i \in LatestReviews(db, a) : db.reviews[i].status # "pending"

AssignedToOther(db, c) ==
    db.annotations[c.ann].assignedReviewerId \notin {Null, c.user}

C16_ErrorWritesNothing ==
    ( /\ \/ Served("CA")
         \/ Served("CR")
         \/ Served("UR")
      /\ last.c.result # "ok" )
    => Unwritten

----------------------------------------------------------------------------
(* Invariants of the stored rows (SpecSerial) *)

Decided(db, a) == {i \in ReviewsOf(db, a) : db.reviews[i].status # "pending"}

\* the decided Reviews of the highest round among the decided ones
LatestDecided(db, a) ==
    {i \in Decided(db, a) :
        \A j \in Decided(db, a) : db.reviews[j].reviewRound <= db.reviews[i].reviewRound}

ImageOfLatestDecided(db) ==
    \A a \in DOMAIN db.annotations : \A i \in LatestDecided(db, a) :
        /\ db.annotations[a].reviewStatus = "approved"
              <=> db.reviews[i].status = "approved"
        /\ db.annotations[a].reviewStatus = "rejected"
              <=> db.reviews[i].status = "rejected"

ReviewRecorded ==
    \/ Len(reviews') > Len(reviews)
    \/ \E i \in DOMAIN reviews :
          reviews[i].status = "pending" /\ reviews'[i].status # "pending"

\* C17: the reviewStatus of an annotation with a decided Review is approved
\* exactly when its highest-round decided Review is approved and rejected
\* exactly when that Review is rejected; and a request that changes a Task's
\* status or an Annotation's reviewStatus inserts or decides a Review, unless
\* it is a review-required CompleteAnnotation that assigns no reviewer.
C17_StatusFollowsReviews ==
    [][/\ ImageOfLatestDecided(DB)
       /\ ( \/ \E t \in TaskIds : tasks'[t].status # tasks[t].status
            \/ \E a \in DOMAIN annotations :
                  annotations'[a].reviewStatus # annotations[a].reviewStatus )
          => \/ ReviewRecorded
             \/ /\ last'.c.op = "CA"
                /\ last'.c.mode = "review-required"
                /\ last'.c.assigned = Null]_vars

\* C18: in every reachable state every Review whose status is rejected or
\* changes_requested has a message that is not empty after trimming.
C18_DecisionHasMessage ==
    \A i \in DOMAIN reviews :
        reviews[i].status \in {"rejected", "changes_requested"}
            => reviews[i].message # Null /\ MsgLen(Trim(reviews[i].message)) > 0

\* C19: while allowSelfReview is false, CompleteAnnotation never chooses the
\* annotator as the reviewer, a CreateReview by the annotator on their own
\* annotation is refused without a write, and no Review that is not
\* auto-approved has the annotation's userId as its reviewerId.
C19_NoSelfReview ==
    ~ settings.allowSelfReview =>
        /\ Served("CA") => last.c.assigned # last.c.user
        /\ (Served("CR") /\ last.c.user = annotations[last.c.ann].userId)
              => last.c.result # "ok" /\ Unwritten
        /\ \A i \in DOMAIN reviews :
              ~ reviews[i].isAutoApproved
                  => reviews[i].reviewerId # annotations[reviews[i].annotationId].userId

\* the annotator holds reviewAnnotations and asks to review their own
\* annotation, which no one is assigned to
C19_Witness ==
    /\ ~ settings.allowSelfReview
    /\ Served("CR")
    /\ last.c.user = annotations[last.c.ann].userId
    /\ ReviewableBy(last.pre, last.c.ann, last.c.user)
    /\ last.pre.annotations[last.c.ann].assignedReviewerId = Null
    /\ last.c.result = "Forbidden"
    /\ Unwritten

\* u may record a decision on annotation a with CreateReview
PassesPreconditions(db, a, u) ==
    /\ ReviewableBy(db, a, u)
    /\ db.annotations[a].assignedReviewerId \in {Null, u}
    /\ canUserReview(u, db.annotations[a].userId)

\* C20: a CompleteAnnotation that resolves review-required without assigning
\* a reviewer sets the Task to in_review and the Annotation to pending and
\* unassigned and inserts no Review; afterwards the CreateReview of any
\* eligible reviewer on that annotation passes the preconditions, and with a
\* valid body it succeeds.
C20_UnassignedSubmission ==
    /\ ( /\ Served("CA")
         /\ last.c.mode = "review-required"
         /\ last.c.assigned = Null )
       => /\ last.c.result = "ok"
          /\ tasks[AnnTask(last.c.ann)].status = "in_review"
          /\ annotations[last.c.ann].reviewStatus = "pending"
          /\ annotations[last.c.ann].assignedReviewerId = Null
          /\ reviews = last.pre.reviews
          /\ EligibleSet(last.c.user) # {}
          /\ \A u \in EligibleSet(last.c.user) :
                PassesPreconditions(DB, last.c.ann, u)
    /\ ( /\ Served("CR")
         /\ PassesPreconditions(last.pre, last.c.ann, last.c.user) )
       => /\ last.c.result \in {"ok", "ValidationError"}
          /\ createReviewSchema(last.c.status, last.c.message)
                => last.c.result = "ok"

\* an eligible reviewer decides on an annotation submitted without assignment
C20_Witness ==
    /\ Served("CR")
    /\ prev.op = "CA" /\ prev.mode = "review-required" /\ prev.assigned = Null
    /\ ~ settings.autoAssignReviewer
    /\ last.pre.tasks[AnnTask(last.c.ann)].status = "in_review"
    /\ last.pre.reviews = << >>
    /\ last.c.user \in EligibleSet(annotations[last.c.ann].userId)
    /\ last.c.result = "ok"
    /\ Len(reviews) = 1

----------------------------------------------------------------------------
(* Frame of updateReview (SpecSerial) *)

\* C21: an UpdateReview that carries a message and no status changes only
\* the message of its Review: the Review's status stays pending, and every
\* Task, every Annotation and every other Review is unchanged.
C21_MessageOnlyEdit ==
    ( /\ Served("UR")
      /\ last.c.result = "ok"
      /\ last.c.status = Null /\ last.c.message # Null )
    => /\ tasks = last.pre.tasks
       /\ annotations = last.pre.annotations
       /\ reviews = [last.pre.reviews EXCEPT ![last.c.rid].message = last.c.message]
       /\ last.pre.reviews[last.c.rid].status = "pending"
       /\ reviews[last.c.rid].status = "pending"

\* the reviewer of a pending Review leaves a note on it while a decided
\* Review of an earlier round stands beside it
C21_Witness ==
    /\ Served("UR")
    /\ last.c.result = "ok"
    /\ last.c.status = Null /\ last.c.message = "fix"
    /\ Len(reviews) = 2
    /\ reviews[last.c.rid].message = "fix"
    /\ last.pre.reviews[last.c.rid].message = Null
    /\ tasks[reviews[last.c.rid].taskId].status = "in_review"

----------------------------------------------------------------------------
(* The settings view (SpecSerial) *)

\* C24: getProjectReviewSettings never fails on the workflow resolution:
\* when determineWorkflowMode throws (always-required, no eligible reviewer)
\* it returns the stored settings with currentWorkflowMode review-required,
\* otherwise with the resolved mode, and it writes nothing; a
\* CompleteAnnotation in the same situation fails with NoEligibleReviewers.
C24_SettingsViewFallsBack ==
    /\ Served("GS") =>
          /\ last.c.result = "ok"
          /\ Unwritten
          /\ last.c.data = settings
          /\ last.c.mode =
                IF settings.reviewMode = "always-required"
                   /\ EligibleSet(last.c.user) = {}
                THEN "review-required"
                ELSE determineWorkflowMode(last.pre, last.c.user).mode
    /\ ( /\ Served("CA")
         /\ Completable(last.pre, last.c)
         /\ settings.reviewMode = "always-required"
         /\ EligibleSet(last.c.user) = {} )
       => last.c.result = "NoEligibleReviewers" /\ Unwritten

\* the view is asked where no one can review
C24_Witness ==
    /\ Served("GS")
    /\ settings.reviewMode = "always-required"
    /\ EligibleSet(last.c.user) = {}
    /\ last.c.result = "ok"
    /\ last.c.mode = "review-required"

----------------------------------------------------------------------------
(* Invariants of the stored rows under interleaved requests (Spec) *)

\* C25: whenever an annotation has a pending Review, that Review's
\* reviewerId is the annotation's assignedReviewerId, the annotation's
\* reviewStatus is pending and its Task's status is in_review.
C25_PendingReviewConsistent ==
    \A i \in DOMAIN reviews :
        reviews[i].status = "pending" =>
            /\ reviews[i].reviewerId
                  = annotations[reviews[i].annotationId].assignedReviewerId
            /\ annotations[reviews[i].annotationId].reviewStatus = "pending"
            /\ tasks[reviews[i].taskId].status = "in_review"

\* C28: each annotation has at most one Review with status approved,
\* auto-approved or approved by a reviewer.
C28_OneApprovedReview ==
    \A i, j \in DOMAIN reviews :
        ( /\ reviews[i].annotationId = reviews[j].annotationId
          /\ reviews[i].status = "approved"
          /\ reviews[j].status = "approved" ) => i = j

----------------------------------------------------------------------------
(* Completed Tasks that hold several annotations (SpecShared) *)

\* C27: a Task whose status is completed has no Review with status pending
\* on any of its annotations.
C27_CompletedHasNoPending ==
    \A t \in TaskIds :
        tasks[t].status = "completed" =>
            \A i \in DOMAIN reviews :
                reviews[i].taskId = t => reviews[i].status # "pending"

\* C26: a completed Task stays completed under the workflow operations: no
\* completeAnnotation, createReview or updateReview call changes the status
\* of a Task that was completed when the call arrived.
C26_CompletedIsFinal ==
    \A t \in TaskIds :
        ( /\ last.c.pc = "done"
          /\ last.c.op \in {"CA", "CR", "UR"}
          /\ last.pre.tasks[t].status = "completed" )
            => tasks[t].status = "completed"

----------------------------------------------------------------------------
(* Progress of a review (SpecFair) *)

\* annotation a was submitted for review: a completeAnnotation call on it
\* has just succeeded, or it has a Review
Submitted(a) ==
    \/ last.c.op = "CA" /\ last.c.ann = a /\ last.c.result = "ok"
    \/ ReviewsOf(DB, a) # {}

\* the Task of a is in_review and a is submitted and not finalized; the
\* reviews table can take the row of one more decision
AwaitsReview(a) ==
    /\ tasks[AnnTask(a)].status = "in_review"
    /\ annotations[a].reviewStatus = "pending"
    /\ Submitted(a)
    /\ PendingOf(a) # {} \/ HasRoom(DB)

\* C29: a review never gets stuck: when a Task is in_review and its
\* submitted annotation is not finalized, the Task eventually leaves
\* in_review, given only that responses are sent and that a reviewer who can
\* decide eventually does (no other request is required to happen).
C29_ReviewProgresses ==
    \A a \in {1} : AwaitsReview(a) ~> (tasks[AnnTask(a)].status # "in_review")

\* a reviewer's decision has taken a Task out of in_review
C29_Witness ==
    /\ last.c.pc = "done"
    /\ last.c.op \in {"UR", "CR"}
    /\ last.c.result = "ok"
    /\ last.pre.tasks[1].status = "in_review"
    /\ last.pre.annotations[1].reviewStatus = "pending"
    /\ tasks[1].status # "in_review"

====
